---------------------------- MODULE Spec2Model ----------------------------
(***************************************************************************)
(* BeadForge TTS asset generators: scripts/generate-tts-audio.py (gTTS)    *)
(* and scripts/generate-edge-tts.py (Edge TTS).                            *)
(*                                                                         *)
(* The state is the output tree on disk (files and directories) and the    *)
(* position of the one generator call in progress.  A call is a sequential *)
(* sweep over loop iterations (items); each iteration is one step, and an  *)
(* iteration that reaches the synthesis wrapper is split at the blocking   *)
(* library call, which either saves the file, raises, or is cut short by   *)
(* an external interruption of the process.                                *)
(*                                                                         *)
(* The translation tables are the source's tables restricted to a few      *)
(* keys, in source order; texts are written in ASCII transliteration.      *)
(***************************************************************************)
EXTENDS Naturals, Sequences, FiniteSets, TLC

VARIABLES
    files,      \* path -> "valid" | "partial", for every file that exists
    dirs,       \* directories that exist
    pc,         \* "idle" | "run" | "synth" | "done" | "killed"
    op,         \* the call in progress or just ended (function and arguments)
    work,       \* the loop iterations of the call, in the code's order
    todo,       \* those still to execute
    cur,        \* the synthesis call in progress (pc = "synth")
    count,      \* the counters of the call (generated per category, skipped)
    calls,      \* paths for which the synthesis wrapper was invoked, in order
    written,    \* paths the synthesis wrapper saved successfully, in order
    errors,     \* paths for which the synthesis wrapper caught an exception
    warned,     \* warnings printed by the call
    visited,    \* number of loop iterations executed by the call
    startFiles, \* the files as they were when the call started
    prev,       \* summary of the previous call of the same command
    runs,       \* calls started so far
    faults,     \* synthesis failures and interruptions so far
    proc        \* the script process that makes the call, if one does

vars == <<files, dirs, pc, op, work, todo, cur, count, calls, written, errors,
          warned, visited, startFiles, prev, runs, faults, proc>>

---------------------------------------------------------------------------
(* Bounds of the exploration *)

\* calls of the command per behaviour (the first one and its re-runs)
MaxRuns == 2
\* synthesis failures and interruptions per behaviour
MaxFaults == 1
\* largest max_number given to generate_number_audio; also stands in for the
\* max_number=100 that generate_all_audio passes
MaxNumber == 2

---------------------------------------------------------------------------
(* Static tables *)

COLOR_TRANSLATIONS ==
    [Red |-> [ru |-> "krasnyj", uk |-> "chervonyj", en |-> "red"]]

\* list(COLOR_TRANSLATIONS.keys()): insertion order
COLOR_KEYS == <<"Red">>

MODIFIER_TRANSLATIONS ==
    [light |-> [ru |-> "svetlyj", uk |-> "svitlyj", en |-> "light"]]

MODIFIER_KEYS == <<"light">>

EVENT_TRANSLATIONS ==
    [prybavka  |-> [uk |-> "prybavka"],
     attention |-> [uk |-> "uvaha"]]

EVENT_KEYS == <<"prybavka", "attention">>

LANGUAGE_CODES == [ru |-> "ru", uk |-> "uk", en |-> "en"]

\* list(LANGUAGE_CODES.keys())
LANGUAGE_KEYS == <<"ru", "uk", "en">>

VOICE_CONFIGS ==
    << [language |-> "ru", folder |-> "female-default", tld |-> "com"],
       [language |-> "uk", folder |-> "female-default", tld |-> "com"],
       [language |-> "en", folder |-> "female-default", tld |-> "com"] >>

\* generate-edge-tts.py
COLORS ==
    [red  |-> [ru |-> "krasnyj", uk |-> "chervonyj", en |-> "red"],
     blue |-> [ru |-> "sinij",   uk |-> "synij",     en |-> "blue"]]

\* COLORS.items(): insertion order
EDGE_COLOR_KEYS == <<"red", "blue">>

VOICES == [ru |-> "ru-RU-SvetlanaNeural",
           uk |-> "uk-UA-PolinaNeural",
           en |-> "en-US-JennyNeural"]

\* list(VOICES.keys())
VOICE_KEYS == <<"ru", "uk", "en">>

---------------------------------------------------------------------------
(* Python helpers *)

\* Optional[List[str]]: None, or a list
None == [isNone |-> TRUE, val |-> <<>>]
Some(v) == [isNone |-> FALSE, val |-> v]

Range(s) == {s[i] : i \in 1..Len(s)}

\* dict.get(key) of a str -> str dictionary; a missing key gives None, which
\* like the empty string is false in `if not text`
Get(d, k) == IF k \in DOMAIN d THEN d[k] ELSE ""

\* str.lower() on the item keys that occur
lower(s) ==
    CASE s = "Red" -> "red"
      [] OTHER     -> s

RECURSIVE Flatten(_)
Flatten(ss) == IF ss = <<>> THEN <<>> ELSE Head(ss) \o Flatten(Tail(ss))

\* Path.mkdir(parents=True, exist_ok=True)
Mkdir(ds, d) == ds \cup {SubSeq(d, 1, k) : k \in 1..Len(d)}

---------------------------------------------------------------------------
(* Output paths *)

get_output_dir(language, voice_folder) ==
    <<"public", "audio", "tts", language, voice_folder>>

get_events_output_dir(language) ==
    <<"public", "audio", "events", language>>

ColorPath(color_key, lang, folder) ==
    get_output_dir(lang, folder) \o <<lower(color_key) \o ".mp3">>

NumberDir(lang, folder) == get_output_dir(lang, folder) \o <<"numbers">>

NumberPath(num, lang, folder) ==
    NumberDir(lang, folder) \o <<ToString(num) \o ".mp3">>

\* modifier files written beside the color files
ModifierPath_flat(modifier_key, lang, folder) ==
    get_output_dir(lang, folder) \o <<lower(modifier_key) \o ".mp3">>

ModifierDir(lang, folder) == get_output_dir(lang, folder) \o <<"modifiers">>

ModifierPath(modifier_key, lang, folder) ==
    ModifierDir(lang, folder) \o <<lower(modifier_key) \o ".mp3">>

EventPath(event_key, lang) ==
    get_events_output_dir(lang) \o <<event_key \o ".mp3">>

EdgeDir(lang) == <<"public", "audio", "tts", lang, "female-default">>

EdgePath(color_key, lang) == EdgeDir(lang) \o <<color_key \o ".mp3">>

---------------------------------------------------------------------------
(* Loop iterations.  The order of the iterations of a call is fixed by its *)
(* arguments and the tables; what an iteration does depends on the disk.   *)

Item(kind, key, lang, folder, num) ==
    [kind |-> kind, key |-> key, lang |-> lang, folder |-> folder, num |-> num]

\* `languages = list(LANGUAGE_CODES.keys())` when languages is None
Languages(languages, default) ==
    IF languages.isNone THEN default ELSE languages.val

\* the language filter left out: every voice configuration is used
RequestedConfigs_all(languages) == VOICE_CONFIGS

\* `for config in voice_configs: if lang not in languages: continue`
RequestedConfigs(languages) ==
    SelectSeq(VOICE_CONFIGS,
              LAMBDA c : c.language \in Range(Languages(languages, LANGUAGE_KEYS)))

ColorWork(color_key, languages) ==
    IF color_key \notin DOMAIN COLOR_TRANSLATIONS
    THEN << Item("color_missing", color_key, "", "", 0) >>
    ELSE LET cs == RequestedConfigs(languages)
         IN  [i \in 1..Len(cs) |->
                 Item("color", color_key, cs[i].language, cs[i].folder, 0)]

\* range(1, max_number): the last number is left out
NumberWork_short(max_number, languages) ==
    LET cs == RequestedConfigs(languages)
    IN  Flatten([i \in 1..Len(cs) |->
            << Item("numbers_dir", "", cs[i].language, cs[i].folder, 0) >>
            \o [n \in 1..(max_number - 1) |->
                   Item("number", "", cs[i].language, cs[i].folder, n)]])

NumberWork(max_number, languages) ==
    LET cs == RequestedConfigs(languages)
    IN  Flatten([i \in 1..Len(cs) |->
            << Item("numbers_dir", "", cs[i].language, cs[i].folder, 0) >>
            \o [n \in 1..max_number |->
                   Item("number", "", cs[i].language, cs[i].folder, n)]])

ModifierWork(modifier_key, languages) ==
    IF modifier_key \notin DOMAIN MODIFIER_TRANSLATIONS
    THEN << Item("modifier_missing", modifier_key, "", "", 0) >>
    ELSE LET cs == RequestedConfigs(languages)
         IN  [i \in 1..Len(cs) |->
                 Item("modifier", modifier_key, cs[i].language, cs[i].folder, 0)]

AllModifiersWork(languages, modifiers) ==
    LET ms == Languages(modifiers, MODIFIER_KEYS)
    IN  Flatten([i \in 1..Len(ms) |-> ModifierWork(ms[i], languages)])

EventWork(event_key, languages) ==
    IF event_key \notin DOMAIN EVENT_TRANSLATIONS
    THEN << Item("event_missing", event_key, "", "", 0) >>
    ELSE LET ls == Languages(languages, <<"uk">>)
         IN  [i \in 1..Len(ls) |-> Item("event", event_key, ls[i], "", 0)]

AllEventsWork(languages, events) ==
    LET es == Languages(events, EVENT_KEYS)
    IN  Flatten([i \in 1..Len(es) |-> EventWork(es[i], languages)])

\* the event category of generate_all_audio and of --events-only is given the
\* languages of the caller
EventLanguages_requested(languages) == languages

\* `languages=["uk"],  # Events are Ukrainian-only`
EventLanguages(languages) == Some(<<"uk">>)

AllAudioWork(languages, colors, inc_numbers, inc_modifiers, inc_events) ==
    LET cs == Languages(colors, COLOR_KEYS)
    IN  Flatten([i \in 1..Len(cs) |-> ColorWork(cs[i], languages)])
        \o (IF inc_numbers THEN NumberWork(MaxNumber, languages) ELSE <<>>)
        \o (IF inc_modifiers THEN AllModifiersWork(languages, None) ELSE <<>>)
        \o (IF inc_events THEN AllEventsWork(EventLanguages(languages), None)
            ELSE <<>>)

\* generate-edge-tts.py generate_all: `for lang in languages`, and inside it
\* `for color_key, translations in COLORS.items()` when the language has a voice
EdgeWork(languages) ==
    LET ls == Languages(languages, VOICE_KEYS)
    IN  Flatten([i \in 1..Len(ls) |->
            << Item("edge_lang", "", ls[i], "", 0) >>
            \o (IF Get(VOICES, ls[i]) = "" THEN <<>>
                ELSE [k \in 1..Len(EDGE_COLOR_KEYS) |->
                         Item("edge_color", EDGE_COLOR_KEYS[k], ls[i],
                              "female-default", 0)])])

Cmd(fn, key, max_number, languages, colors, inc_n, inc_m, inc_e, overwrite) ==
    [fn |-> fn, key |-> key, max_number |-> max_number,
     languages |-> languages, colors |-> colors,
     include_numbers |-> inc_n, include_modifiers |-> inc_m,
     include_events |-> inc_e, overwrite |-> overwrite]

Work(c) ==
    CASE c.fn = "generate_color_audio"    -> ColorWork(c.key, c.languages)
      [] c.fn = "generate_number_audio"   -> NumberWork(c.max_number, c.languages)
      [] c.fn = "generate_modifier_audio" -> ModifierWork(c.key, c.languages)
      [] c.fn = "generate_all_modifiers"  -> AllModifiersWork(c.languages, None)
      [] c.fn = "generate_event_audio"    -> EventWork(c.key, c.languages)
      [] c.fn = "generate_all_events"     -> AllEventsWork(c.languages, None)
      [] c.fn = "generate_all_audio"      ->
            AllAudioWork(c.languages, c.colors, c.include_numbers,
                         c.include_modifiers, c.include_events)
      [] c.fn = "generate_all"            -> EdgeWork(c.languages)
      [] OTHER                            -> <<>>

\* The text an iteration hands to the synthesis wrapper ("" when it has none)
ItemText(it) ==
    CASE it.kind = "color"      -> Get(COLOR_TRANSLATIONS[it.key], it.lang)
      [] it.kind = "modifier"   -> Get(MODIFIER_TRANSLATIONS[it.key], it.lang)
      [] it.kind = "event"      -> Get(EVENT_TRANSLATIONS[it.key], it.lang)
      [] it.kind = "number"     -> ToString(it.num)
      [] it.kind = "edge_color" -> Get(COLORS[it.key], it.lang)
      [] OTHER                  -> ""

\* The directory an iteration creates
ItemDir(it) ==
    CASE it.kind = "color"       -> get_output_dir(it.lang, it.folder)
      [] it.kind = "modifier"    -> ModifierDir(it.lang, it.folder)
      [] it.kind = "event"       -> get_events_output_dir(it.lang)
      [] it.kind = "numbers_dir" -> NumberDir(it.lang, it.folder)
      [] it.kind = "number"      -> NumberDir(it.lang, it.folder)
      [] it.kind = "edge_lang"   -> EdgeDir(it.lang)
      [] it.kind = "edge_color"  -> EdgeDir(it.lang)
      [] OTHER                   -> <<>>

\* The file an iteration writes
ItemPath(it) ==
    CASE it.kind = "color"      -> ColorPath(it.key, it.lang, it.folder)
      [] it.kind = "modifier"   -> ModifierPath(it.key, it.lang, it.folder)
      [] it.kind = "event"      -> EventPath(it.key, it.lang)
      [] it.kind = "number"     -> NumberPath(it.num, it.lang, it.folder)
      [] it.kind = "edge_color" -> EdgePath(it.key, it.lang)
      [] OTHER                  -> <<>>

\* The counter an iteration's success increments
ItemCounter(it) ==
    CASE it.kind = "color"      -> "colors"
      [] it.kind = "modifier"   -> "modifiers"
      [] it.kind = "event"      -> "events"
      [] it.kind = "number"     -> "numbers"
      [] OTHER                  -> "generated"

---------------------------------------------------------------------------
(* Inputs *)

\* languages arguments: the default, one language, a list that holds a
\* language with no voice configuration
LanguageArgs == {None, Some(<<"ru">>), Some(<<"de", "uk">>)}

\* the same and a list that names a language twice, for the two functions
\* that iterate over the list itself
LanguageListArgs == LanguageArgs \cup {Some(<<"uk", "uk">>)}

\* colors arguments of generate_all_audio: the default, and a list that holds
\* a key that is not in the table (the lookup is case-sensitive)
ColorArgs == {None, Some(<<"red", "Red">>)}

Commands ==
    {Cmd("generate_color_audio", k, 0, l, None, FALSE, FALSE, FALSE, FALSE) :
        k \in {"Red", "red"}, l \in LanguageArgs}
    \cup
    {Cmd("generate_number_audio", "", n, l, None, FALSE, FALSE, FALSE, FALSE) :
        n \in 0..MaxNumber, l \in LanguageArgs}
    \cup
    {Cmd("generate_modifier_audio", k, 0, l, None, FALSE, FALSE, FALSE, FALSE) :
        k \in {"light", "shiny"}, l \in LanguageArgs}
    \cup
    {Cmd("generate_all_modifiers", "", 0, l, None, FALSE, FALSE, FALSE, FALSE) :
        l \in LanguageArgs}
    \cup
    {Cmd("generate_event_audio", k, 0, l, None, FALSE, FALSE, FALSE, FALSE) :
        k \in {"attention", "beep"}, l \in LanguageListArgs}
    \cup
    {Cmd("generate_all_events", "", 0, l, None, FALSE, FALSE, FALSE, FALSE) :
        l \in LanguageListArgs}
    \cup
    \* every choice of colors and categories for one language; all colors and
    \* categories for every languages argument
    {Cmd("generate_all_audio", "", 0, Some(<<"ru">>), c, n, m, e, FALSE) :
        c \in ColorArgs, n \in BOOLEAN, m \in BOOLEAN, e \in BOOLEAN}
    \cup
    {Cmd("generate_all_audio", "", 0, l, None, TRUE, TRUE, TRUE, FALSE) :
        l \in LanguageArgs}
    \cup
    {Cmd("generate_all", "", 0, l, None, FALSE, FALSE, FALSE, FALSE) :
        l \in LanguageListArgs}

---------------------------------------------------------------------------
(* State *)

NoCmd == Cmd("", "", 0, None, None, FALSE, FALSE, FALSE, FALSE)

NoCall == [item |-> Item("", "", "", "", 0), path |-> <<>>, text |-> "",
           backend |-> ""]

ZeroCount == [colors |-> 0, numbers |-> 0, modifiers |-> 0, events |-> 0,
              generated |-> 0, skipped |-> 0]

NoPrev == [status |-> "none", overwrite |-> FALSE, errors |-> <<>>,
           calls |-> <<>>, startFiles |-> <<>>]

\* the command line of a script: the flags of generate-tts-audio.py;
\* generate-edge-tts.py has --lang and --overwrite only
Args(language, colors, no_numbers, no_modifiers, modifiers_only, events_only, no_events, overwrite, list_colors, list_modifiers, list_events) ==
    [language |-> language, colors |-> colors, no_numbers |-> no_numbers,
     no_modifiers |-> no_modifiers, modifiers_only |-> modifiers_only,
     events_only |-> events_only, no_events |-> no_events,
     overwrite |-> overwrite, list_colors |-> list_colors,
     list_modifiers |-> list_modifiers, list_events |-> list_events]

NoArgs ==
    Args(None, None, FALSE, FALSE, FALSE, FALSE, FALSE, FALSE, FALSE, FALSE,
         FALSE)

\* a process: its script and command line, whether the script's backend
\* library can be imported, what it printed apart from the per-item lines,
\* the directories that were there when it started, and its exit status once
\* it has exited
NoProc ==
    [script |-> "", args |-> NoArgs, available |-> TRUE, printed |-> {},
     dirs0 |-> {}, exited |-> FALSE, exit |-> 0]

\* the files map with `path` holding a file in state `st`
WithFile(fs, path, st) ==
    [p \in DOMAIN fs \cup {path} |-> IF p = path THEN st ELSE fs[p]]

Init ==
    /\ files = <<>>
    /\ dirs = {}
    /\ pc = "idle"
    /\ op = NoCmd
    /\ work = <<>>
    /\ todo = <<>>
    /\ cur = NoCall
    /\ count = ZeroCount
    /\ calls = <<>>
    /\ written = <<>>
    /\ errors = <<>>
    /\ warned = {}
    /\ visited = 0
    /\ startFiles = <<>>
    /\ prev = NoPrev
    /\ runs = 0
    /\ faults = 0
    /\ proc = NoProc

\* entry into a generator function: the locals are initialised
Enter(c) ==
    /\ op' = c
    /\ work' = Work(c)
    /\ todo' = Work(c)
    /\ pc' = "run"
    /\ cur' = NoCall
    /\ count' = ZeroCount
    /\ calls' = <<>>
    /\ written' = <<>>
    /\ errors' = <<>>
    /\ warned' = {}
    /\ visited' = 0
    /\ startFiles' = files
    /\ runs' = runs + 1
    /\ UNCHANGED <<files, dirs, faults>>

\* the first call of the command, on an empty output tree
Start ==
    /\ pc = "idle"
    /\ runs < MaxRuns
    /\ \E c \in Commands, ow \in BOOLEAN :
          Enter([c EXCEPT !.overwrite = ow])
    /\ prev' = NoPrev
    /\ UNCHANGED proc

\* the same command is called again, with either overwrite setting, after the
\* previous call returned or was interrupted
Rerun ==
    /\ pc \in {"done", "killed"}
    /\ runs < MaxRuns
    /\ \E ow \in BOOLEAN : Enter([op EXCEPT !.overwrite = ow])
    /\ prev' = [status |-> pc, overwrite |-> op.overwrite, errors |-> errors,
                calls |-> calls, startFiles |-> startFiles]
    /\ UNCHANGED proc

---------------------------------------------------------------------------
(* One loop iteration *)

\* `continue` (or `return 0`) after printing the warnings ws
Continue(ws) ==
    /\ todo' = Tail(todo)
    /\ visited' = visited + 1
    /\ warned' = warned \cup ws
    /\ pc' = "run"

\* the test for a missing translation left out
Missing_never(text) == FALSE

\* `if not text`
Missing(text) == text = ""

\* the existence probe left out: nothing is ever skipped
SkipExisting_never(output_path, overwrite) == FALSE

\* the overwrite flag left out of the test: an existing file is always skipped
SkipExisting_ignoresOverwrite(output_path, overwrite) ==
    output_path \in DOMAIN files

\* `if output_path.exists() and not overwrite`
SkipExisting(output_path, overwrite) ==
    output_path \in DOMAIN files /\ ~overwrite

\* the tail of an iteration that has a text: create the directory, probe the
\* path, and either skip or enter the synthesis wrapper
Generate(it, backend) ==
    /\ dirs' = Mkdir(dirs, ItemDir(it))
    /\ IF SkipExisting(ItemPath(it), op.overwrite)
       THEN /\ Continue({})
            /\ count' = IF backend = "edge"
                        THEN [count EXCEPT !.skipped = @ + 1]
                        ELSE count
            /\ UNCHANGED <<cur, calls>>
       ELSE /\ todo' = Tail(todo)
            /\ visited' = visited + 1
            /\ pc' = "synth"
            /\ cur' = [item |-> it, path |-> ItemPath(it),
                       text |-> ItemText(it), backend |-> backend]
            /\ calls' = Append(calls, ItemPath(it))
            /\ UNCHANGED <<count, warned>>
    /\ UNCHANGED <<files, op, work, written, errors, startFiles, prev, runs, faults, proc>>

\* an iteration that only prints and continues
Warn(ws) ==
    /\ Continue(ws)
    /\ UNCHANGED <<files, dirs, op, work, cur, count, calls, written, errors,
                   startFiles, prev, runs, faults, proc>>

Warning(what, key, lang) == [what |-> what, key |-> key, lang |-> lang]

\* generate_color_audio: the body of `for config in voice_configs`, or the
\* early return for a key with no translations
ColorStep ==
    /\ pc = "run" /\ todo # <<>>
    /\ LET it == Head(todo) IN
       /\ it.kind \in {"color", "color_missing"}
       /\ IF it.kind = "color_missing"
          THEN Warn({Warning("no translations", it.key, "")})
          ELSE IF Missing(ItemText(it))
               THEN Warn({Warning("no translation", it.key, it.lang)})
               ELSE Generate(it, "gtts")

\* generate_number_audio: the directory creation of one voice configuration,
\* or the body of `for num in range(1, max_number + 1)`
NumberStep ==
    /\ pc = "run" /\ todo # <<>>
    /\ LET it == Head(todo) IN
       /\ it.kind \in {"number", "numbers_dir"}
       /\ IF it.kind = "numbers_dir"
          THEN /\ dirs' = Mkdir(dirs, ItemDir(it))
               /\ Continue({})
               /\ UNCHANGED <<files, op, work, cur, count, calls, written, errors,
                              startFiles, prev, runs, faults, proc>>
          ELSE Generate(it, "gtts")

\* generate_modifier_audio
ModifierStep ==
    /\ pc = "run" /\ todo # <<>>
    /\ LET it == Head(todo) IN
       /\ it.kind \in {"modifier", "modifier_missing"}
       /\ IF it.kind = "modifier_missing"
          THEN Warn({Warning("no translations", it.key, "")})
          ELSE IF Missing(ItemText(it))
               THEN Warn({Warning("no translation", it.key, it.lang)})
               ELSE Generate(it, "gtts")

\* generate_event_audio: the body of `for lang in languages`
EventStep ==
    /\ pc = "run" /\ todo # <<>>
    /\ LET it == Head(todo) IN
       /\ it.kind \in {"event", "event_missing"}
       /\ IF it.kind = "event_missing"
          THEN Warn({Warning("no translations", it.key, "")})
          ELSE IF Missing(ItemText(it))
               THEN Warn({Warning("no translation", it.key, it.lang)})
               ELSE Generate(it, "gtts")

\* generate-edge-tts.py generate_all: the head of `for lang in languages`
\* (voice lookup, directory creation), or the body of the loop over COLORS
EdgeStep ==
    /\ pc = "run" /\ todo # <<>>
    /\ LET it == Head(todo) IN
       /\ it.kind \in {"edge_lang", "edge_color"}
       /\ IF it.kind = "edge_lang"
          THEN IF Get(VOICES, it.lang) = ""
               THEN Warn({Warning("no voice", "", it.lang)})
               ELSE /\ dirs' = Mkdir(dirs, ItemDir(it))
                    /\ Continue({})
                    /\ UNCHANGED <<files, op, work, cur, count, calls, written,
                                   errors, startFiles, prev, runs, faults, proc>>
          ELSE IF Missing(ItemText(it))
               THEN Warn({})
               ELSE Generate(it, "edge")

---------------------------------------------------------------------------
(* The synthesis wrapper: generate_audio_gtts, generate_audio *)

\* gTTS(text, lang=LANGUAGE_CODES[language], ...) raises KeyError, before any
\* file is opened, for a language that has no code
CanSynthesize(c) ==
    c.backend = "edge" \/ c.item.lang \in DOMAIN LANGUAGE_CODES

\* the exception leaves the wrapper and ends the loops
AfterError_abort(rest) == <<>>

\* `except Exception as e: print(...); return False`: the exception does not
\* leave the wrapper, and the loops go on with the iterations that remain
AfterError(rest) == rest

\* the wrapper's result ignored: every attempt is counted
Counted_always(cnt, counter, ok) == [cnt EXCEPT ![counter] = @ + 1]

\* `if generate_audio_gtts(...): generated += 1`
Counted(cnt, counter, ok) ==
    IF ok THEN [cnt EXCEPT ![counter] = @ + 1] ELSE cnt

\* tts.save(path) / communicate.save(path) returns: the file is complete
SaveOk ==
    /\ pc = "synth"
    /\ CanSynthesize(cur)
    /\ files' = WithFile(files, cur.path, "valid")
    /\ written' = Append(written, cur.path)
    /\ count' = Counted(count, ItemCounter(cur.item), TRUE)
    /\ pc' = "run"
    /\ cur' = NoCall
    /\ UNCHANGED <<dirs, op, work, todo, calls, errors, warned, visited, startFiles,
                   prev, runs, faults, proc>>

\* the library raises; `except Exception` prints and returns False.  The
\* library writes to the final path: an exception raised after it opened the
\* file leaves a truncated file there, one raised before leaves the path as
\* it was.
SaveError ==
    /\ pc = "synth"
    /\ faults < MaxFaults
    /\ \E opened \in BOOLEAN :
          /\ opened => CanSynthesize(cur)
          /\ files' = IF opened THEN WithFile(files, cur.path, "partial")
                      ELSE files
    /\ errors' = Append(errors, cur.path)
    /\ count' = Counted(count, ItemCounter(cur.item), FALSE)
    /\ todo' = AfterError(todo)
    /\ pc' = "run"
    /\ cur' = NoCall
    /\ faults' = faults + 1
    /\ UNCHANGED <<dirs, op, work, calls, written, warned, visited, startFiles,
                   prev, runs, proc>>

\* the process is interrupted from outside (KeyboardInterrupt is no
\* Exception, a kill is no exception at all): between two iterations, or
\* inside the library call, before or after it opened the file
Interrupt ==
    /\ pc \in {"run", "synth"}
    /\ faults < MaxFaults
    /\ \E opened \in BOOLEAN :
          /\ opened => (pc = "synth" /\ CanSynthesize(cur))
          /\ files' = IF opened THEN WithFile(files, cur.path, "partial")
                      ELSE files
    /\ pc' = "killed"
    /\ faults' = faults + 1
    /\ UNCHANGED <<dirs, op, work, todo, cur, count, calls, written, errors, warned,
                   visited, startFiles, prev, runs, proc>>

\* the loops are exhausted: the function returns
Return ==
    /\ pc = "run" /\ todo = <<>>
    /\ pc' = "done"
    /\ proc' = IF proc.script = "" THEN proc
               ELSE [proc EXCEPT !.exited = TRUE, !.exit = 0]
    /\ UNCHANGED <<files, dirs, op, work, todo, cur, count, calls, written,
                   errors, warned, visited, startFiles, prev, runs, faults>>

---------------------------------------------------------------------------
(* The script processes *)

\* the process ends before any generator is called
Exit(p, status, out) ==
    /\ proc' = [p EXCEPT !.exited = TRUE, !.exit = status,
                         !.printed = @ \cup out]
    /\ pc' = "exited"
    /\ op' = NoCmd
    /\ work' = <<>>
    /\ todo' = <<>>
    /\ cur' = NoCall
    /\ count' = ZeroCount
    /\ calls' = <<>>
    /\ written' = <<>>
    /\ errors' = <<>>
    /\ warned' = {}
    /\ visited' = 0
    /\ startFiles' = files
    /\ runs' = runs + 1
    /\ UNCHANGED <<files, dirs, faults>>

\* only --list-colors is looked at before the generation
ListMode_colorsOnly(args) == args.list_colors

\* main of generate-tts-audio.py: one of the listing flags is given
ListMode(args) == args.list_colors \/ args.list_modifiers \/ args.list_events

\* the table a listing process prints: the first of the three flags given
Listing(args) ==
    IF args.list_colors THEN "colors"
    ELSE IF args.list_modifiers THEN "modifiers" ELSE "events"

\* the check of the backend is left out
MissingBackend_ignored(available) == FALSE

\* `if not GTTS_AVAILABLE` in main of generate-tts-audio.py, `except
\* ImportError` at the import of generate-edge-tts.py
MissingBackend(available) == ~available

\* the generator call main of generate-tts-audio.py makes
MainCall(args) ==
    IF args.modifiers_only
    THEN Cmd("generate_all_modifiers", "", 0, args.language, None,
             FALSE, FALSE, FALSE, args.overwrite)
    ELSE IF args.events_only
    THEN Cmd("generate_all_events", "", 0, EventLanguages(args.language),
             None, FALSE, FALSE, FALSE, args.overwrite)
    ELSE Cmd("generate_all_audio", "", 0, args.language, args.colors,
             ~args.no_numbers, ~args.no_modifiers, ~args.no_events,
             args.overwrite)

\* python generate-tts-audio.py <args>: the import of gtts, which only
\* prints a warning when it fails, then main up to its generator call
Main(args, available) ==
    LET p == [script |-> "generate-tts-audio.py", args |-> args,
              available |-> available,
              printed |-> IF available THEN {} ELSE {"gtts_warning"},
              dirs0 |-> dirs, exited |-> FALSE, exit |-> 0]
    IN  IF ListMode(args) THEN Exit(p, 0, {Listing(args)})
        ELSE IF MissingBackend(available) THEN Exit(p, 1, {"gtts_guidance"})
        ELSE Enter(MainCall(args)) /\ proc' = p

\* python generate-edge-tts.py <args>: the import of edge_tts, which prints
\* the guidance and exits with status 1 when it fails, then main
EdgeMain(args, available) ==
    LET p == [script |-> "generate-edge-tts.py", args |-> args,
              available |-> available, printed |-> {},
              dirs0 |-> dirs, exited |-> FALSE, exit |-> 0]
    IN  IF MissingBackend(available)
        THEN Exit(p, 1, {"edge_tts_guidance"})
        ELSE Enter(Cmd("generate_all", "", 0, args.language, None,
                       FALSE, FALSE, FALSE, args.overwrite))
             /\ proc' = p

\* --language has choices ru, uk, en and action append
MainLanguageArgs == {None, Some(<<"ru">>)}

\* command lines of generate-tts-audio.py that generate
GeneratingArgs ==
    \* no argument at all
    {NoArgs}
    \cup
    \* --language ru with every choice of categories
    {Args(Some(<<"ru">>), None, nn, nm, FALSE, FALSE, ne, ow, FALSE, FALSE,
          FALSE) :
        nn \in BOOLEAN, nm \in BOOLEAN, ne \in BOOLEAN, ow \in BOOLEAN}
    \cup
    \* --modifiers-only and --events-only, alone and together
    {Args(l, None, FALSE, FALSE, o[1], o[2], FALSE, ow, FALSE, FALSE, FALSE) :
        l \in MainLanguageArgs, ow \in BOOLEAN,
        o \in {<<TRUE, FALSE>>, <<FALSE, TRUE>>, <<TRUE, TRUE>>}}
    \cup
    {Args(Some(<<"ru">>), c, TRUE, TRUE, FALSE, FALSE, FALSE, FALSE, FALSE,
          FALSE, FALSE) : c \in ColorArgs}

\* command lines with a listing flag: alone, and together with flags that
\* ask for a generation
ListingArgs ==
    {Args(l, None, FALSE, FALSE, g, g, FALSE, g, lc, lm, le) :
        l \in MainLanguageArgs, g \in BOOLEAN,
        lc \in BOOLEAN, lm \in BOOLEAN, le \in BOOLEAN}
    \ {Args(l, None, FALSE, FALSE, g, g, FALSE, g, FALSE, FALSE, FALSE) :
        l \in MainLanguageArgs, g \in BOOLEAN}

MainArgs == GeneratingArgs \cup ListingArgs

\* command lines of generate-edge-tts.py
EdgeMainArgs ==
    {Args(l, None, FALSE, FALSE, FALSE, FALSE, FALSE, ow, FALSE, FALSE,
          FALSE) : l \in LanguageListArgs, ow \in BOOLEAN}

\* generate-tts-audio.py is run on an empty output tree
MainStart ==
    /\ pc = "idle"
    /\ runs < MaxRuns
    /\ \E a \in MainArgs, available \in BOOLEAN : Main(a, available)
    /\ prev' = NoPrev

\* generate-edge-tts.py is run on an empty output tree
EdgeMainStart ==
    /\ pc = "idle"
    /\ runs < MaxRuns
    /\ \E a \in EdgeMainArgs, available \in BOOLEAN : EdgeMain(a, available)
    /\ prev' = NoPrev

\* the listing command lines with no other flag
PlainListingArgs ==
    {a \in ListingArgs : a.language = None /\ ~a.overwrite}

\* after a process that generated ended, the script is run again on the tree
\* it left: with the same command line or, for generate-tts-audio.py, with a
\* plain listing one, and with the backend library there or not
MainAgain ==
    /\ pc \in {"done", "killed"}
    /\ proc.script # ""
    /\ runs < MaxRuns
    /\ \E available \in BOOLEAN :
          IF proc.script = "generate-edge-tts.py"
          THEN EdgeMain(proc.args, available)
          ELSE \E a \in {proc.args} \cup PlainListingArgs :
                  Main(a, available)
    /\ prev' = [status |-> pc, overwrite |-> op.overwrite, errors |-> errors,
                calls |-> calls, startFiles |-> startFiles]

Next ==
    \/ Start
    \/ Rerun
    \/ ColorStep
    \/ NumberStep
    \/ ModifierStep
    \/ EventStep
    \/ EdgeStep
    \/ SaveOk
    \/ SaveError
    \/ Interrupt
    \/ Return

Spec == Init /\ [][Next]_vars

\* the generators as the two scripts call them
NextMain ==
    \/ MainStart
    \/ EdgeMainStart
    \/ MainAgain
    \/ ColorStep
    \/ NumberStep
    \/ ModifierStep
    \/ EventStep
    \/ EdgeStep
    \/ SaveOk
    \/ SaveError
    \/ Interrupt
    \/ Return

SpecMain == Init /\ [][NextMain]_vars

---------------------------------------------------------------------------
(* What a call is asked to produce, and what it returns *)

Occurrences(seq, x) == Cardinality({i \in 1..Len(seq) : seq[i] = x})

\* the iterations of the call that have a text to synthesize
TargetItems(w) ==
    SelectSeq(w, LAMBDA it : it.kind \in {"color", "number", "modifier",
                                                "event", "edge_color"}
                                   /\ ItemText(it) # "")

\* the paths of those iterations
Targets(w) == {ItemPath(it) : it \in Range(TargetItems(w))}

\* the sum of the call's generated counters
Generated(cnt) ==
    cnt.colors + cnt.numbers + cnt.modifiers + cnt.events + cnt.generated

\* the value the function returns; generate_all of generate-edge-tts.py
\* has no return statement
Returned(c, cnt) ==
    CASE c.fn = "generate_color_audio"    -> cnt.colors
      [] c.fn = "generate_number_audio"   -> cnt.numbers
      [] c.fn = "generate_modifier_audio" -> cnt.modifiers
      [] c.fn = "generate_all_modifiers"  -> cnt.modifiers
      [] c.fn = "generate_event_audio"    -> cnt.events
      [] c.fn = "generate_all_events"     -> cnt.events
      [] c.fn = "generate_all_audio"      ->
            [colors |-> cnt.colors, numbers |-> cnt.numbers,
             modifiers |-> cnt.modifiers, events |-> cnt.events]
      [] OTHER                            -> None

\* a call that returned, made with overwrite=false, in which no synthesis failed
CleanDone == pc = "done" /\ ~op.overwrite /\ errors = <<>>

\* the call before it was such a call too
AfterCleanDone ==
    prev.status = "done" /\ ~prev.overwrite /\ prev.errors = <<>>

---------------------------------------------------------------------------
(* Claims *)

\* C1: idempotence with overwrite=false.  When a call with overwrite=false in
\* which synthesis succeeds returns, each of its targets was synthesized once
\* if its file was absent when the call started and not at all if it was
\* there.  When the call is then repeated, the second call invokes synthesis
\* zero times, counts 0 and leaves the files as they were, so that over the
\* two calls a target absent at first is synthesized exactly once.
C1_Idempotent ==
    CleanDone =>
        /\ \A t \in Targets(work) :
              Occurrences(calls, t) = IF t \in DOMAIN startFiles THEN 0 ELSE 1
        /\ AfterCleanDone =>
              /\ calls = <<>>
              /\ Generated(count) = 0
              /\ files = startFiles
              /\ \A t \in Targets(work) :
                    Occurrences(prev.calls, t) + Occurrences(calls, t)
                        = IF t \in DOMAIN prev.startFiles THEN 0 ELSE 1

\* a second call that followed a first call which generated files
C1_Witness ==
    /\ CleanDone /\ AfterCleanDone
    /\ prev.calls # <<>>
    /\ Targets(work) # {}
    /\ calls = <<>>

\* C2: with overwrite=true every generate function invokes synthesis for every
\* target that has a translation and a voice configuration, in the order of
\* its loops, whether or not the file is there.
C2_OverwriteRegenerates ==
    (pc = "done" /\ op.overwrite) =>
        LET items == TargetItems(work)
        IN  calls = [i \in 1..Len(items) |-> ItemPath(items[i])]

\* an overwriting call that synthesized a target whose file was there
C2_Witness ==
    /\ pc = "done" /\ op.overwrite
    /\ \E t \in Targets(work) :
          /\ t \in DOMAIN startFiles
          /\ startFiles[t] = "valid"
          /\ t \in Range(calls)

\* C3: a failing synthesis call does not abort the batch.  The failed target
\* is not counted, no remaining iteration is dropped, the call can go on after
\* the failure, and when it returns every iteration of its loops was executed.
C3_FailureDoesNotAbort ==
    /\ pc \in {"run", "synth", "done"} =>
          /\ visited + Len(todo) = Len(work)
          /\ Generated(count) + Len(errors) + (IF pc = "synth" THEN 1 ELSE 0)
                = Len(calls)
    /\ pc = "done" => visited = Len(work)
    /\ (pc = "run" /\ errors # <<>>) =>
          ENABLED (ColorStep \/ NumberStep \/ ModifierStep \/ EventStep
                   \/ EdgeStep \/ Return)

\* a call that returned after its first synthesis failed and a later one
\* succeeded
C3_Witness ==
    /\ pc = "done"
    /\ Len(errors) = 1 /\ errors[1] = calls[1]
    /\ written # <<>>
    /\ Generated(count) = Len(calls) - 1

\* C4 (as claimed): a call with overwrite=false that was interrupted, called
\* again with overwrite=false and run to completion with synthesis succeeding
\* ends with a valid audio file at every target.
C4_ResumeLeavesEveryTargetValid ==
    (/\ CleanDone
     /\ prev.status = "killed" /\ ~prev.overwrite /\ prev.errors = <<>>) =>
        \A t \in Targets(work) : t \in DOMAIN files /\ files[t] = "valid"

---------------------------------------------------------------------------
(* The languages of a call, and the files it is expected to produce, stated *)
(* from the arguments and the tables alone                                  *)

DefaultLanguages(c) ==
    CASE c.fn = "generate_all"         -> VOICE_KEYS
      [] c.fn = "generate_event_audio" -> <<"uk">>
      [] c.fn = "generate_all_events"  -> <<"uk">>
      [] OTHER                         -> LANGUAGE_KEYS

Requested(c) == Range(Languages(c.languages, DefaultLanguages(c)))

\* the languages that have a voice configuration in the script of the call
Voiced(c) ==
    IF c.fn = "generate_all" THEN DOMAIN VOICES
    ELSE {v.language : v \in Range(VOICE_CONFIGS)}

VoiceFolders(l) ==
    {v.folder : v \in {w \in Range(VOICE_CONFIGS) : w.language = l}}

ExpectedColors(keys, l) ==
    {ColorPath(k, l, f) : k \in {x \in keys \cap DOMAIN COLOR_TRANSLATIONS :
                                    l \in DOMAIN COLOR_TRANSLATIONS[x]},
                          f \in VoiceFolders(l)}

ExpectedNumbers(max_number, l) ==
    {NumberPath(n, l, f) : n \in 1..max_number, f \in VoiceFolders(l)}

ExpectedModifiers(keys, l) ==
    {ModifierPath(k, l, f) :
        k \in {x \in keys \cap DOMAIN MODIFIER_TRANSLATIONS :
                  l \in DOMAIN MODIFIER_TRANSLATIONS[x]},
        f \in VoiceFolders(l)}

ExpectedEvents(keys, l) ==
    {EventPath(k, l) : k \in {x \in keys \cap DOMAIN EVENT_TRANSLATIONS :
                                 l \in DOMAIN EVENT_TRANSLATIONS[x]}}

\* the files the call is to produce for the requested language l
ExpectedFor(c, l) ==
    CASE c.fn = "generate_color_audio"    -> ExpectedColors({c.key}, l)
      [] c.fn = "generate_number_audio"   -> ExpectedNumbers(c.max_number, l)
      [] c.fn = "generate_modifier_audio" -> ExpectedModifiers({c.key}, l)
      [] c.fn = "generate_all_modifiers"  ->
            ExpectedModifiers(Range(MODIFIER_KEYS), l)
      [] c.fn = "generate_event_audio"    -> ExpectedEvents({c.key}, l)
      [] c.fn = "generate_all_events"     ->
            ExpectedEvents(Range(EVENT_KEYS), l)
      [] c.fn = "generate_all_audio"      ->
            ExpectedColors(Range(Languages(c.colors, COLOR_KEYS)), l)
            \cup (IF c.include_numbers THEN ExpectedNumbers(MaxNumber, l)
                  ELSE {})
            \cup (IF c.include_modifiers
                  THEN ExpectedModifiers(Range(MODIFIER_KEYS), l) ELSE {})
      [] c.fn = "generate_all"            ->
            IF l \in DOMAIN VOICES
            THEN {EdgePath(k, l) : k \in {x \in Range(EDGE_COLOR_KEYS) :
                                             l \in DOMAIN COLORS[x]}}
            ELSE {}
      [] OTHER                            -> {}

\* the language segment of an output path: audio/tts/<language>/... and
\* audio/events/<language>/...
PathLanguage(p) == p[4]

IsColorPath(p)    == Len(p) = 6 /\ p[3] = "tts"
IsNumberPath(p)   == Len(p) = 7 /\ p[3] = "tts" /\ p[6] = "numbers"
IsModifierPath(p) == Len(p) = 7 /\ p[3] = "tts" /\ p[6] = "modifiers"
IsEventPath(p)    == Len(p) = 5 /\ p[3] = "events"

\* every target of a requested language that the function iterates over was
\* synthesized by the call or had its file when the call started
Processed(c, l) ==
    \A t \in ExpectedFor(c, l) : t \in Range(calls) \/ t \in DOMAIN startFiles

\* a requested language with no voice configuration
Unvoiced(c) == Requested(c) \ Voiced(c)

\* nothing was attempted for language l: no synthesis call, no file, no
\* directory
Untouched(l) ==
    /\ \A p \in Range(calls) : PathLanguage(p) # l
    /\ \A p \in DOMAIN files : PathLanguage(p) # l
    /\ \A d \in dirs : Len(d) >= 4 => d[4] # l

\* C5: for a requested language with no voice configuration the generator
\* prints a warning and skips the language entirely, while it processes the
\* other requested languages (here: it wrote files for them).  The color,
\* number and modifier generators of generate-tts-audio.py skip such a
\* language without any warning, so this does not hold of the code.
C5_WarnsAndSkips ==
    (pc = "done" /\ written # <<>>) =>
        \A l \in Unvoiced(op) :
            /\ \E w \in warned : w.lang = l
            /\ Untouched(l)

\* C6: for an item with no translation for a requested language that the
\* function iterates over (a language with a voice configuration, or any
\* language for the event generator), a warning is printed and that pair alone
\* is skipped: no synthesis call and no file for it, every iteration of the
\* call is executed, and the targets of the other languages and items are
\* processed.
C6_MissingTranslationSkipsPair ==
    LET pairs == {it \in Range(work) :
                     it.kind \in {"color", "modifier", "event"}
                     /\ ItemText(it) = ""}
    IN  pairs # {} =>
            /\ \A it \in pairs :
                  /\ ItemPath(it) \notin Range(calls)
                  /\ ItemPath(it) \notin DOMAIN files
                  /\ pc = "done" =>
                        Warning("no translation", it.key, it.lang) \in warned
            /\ pc = "done" =>
                  /\ visited = Len(work)
                  /\ \A l \in Requested(op) : Processed(op, l)

\* an event call that returned after it skipped a language with no
\* translation and synthesized the event for another language
C6_Witness ==
    /\ pc = "done"
    /\ op.fn = "generate_event_audio"
    /\ Warning("no translation", op.key, "de") \in warned
    /\ written = << EventPath(op.key, "uk") >>

\* the output path of an iteration according to the claimed layout: color and
\* modifier files directly in the voice folder
ClaimedPath(it) ==
    CASE it.kind \in {"color", "modifier"} ->
            <<"public", "audio", "tts", it.lang, it.folder,
              lower(it.key) \o ".mp3">>
      [] it.kind = "number" ->
            <<"public", "audio", "tts", it.lang, it.folder, "numbers",
              ToString(it.num) \o ".mp3">>
      [] it.kind = "event" ->
            <<"public", "audio", "events", it.lang, it.key \o ".mp3">>
      [] OTHER ->
            <<"public", "audio", "tts", it.lang, "female-default",
              it.key \o ".mp3">>

\* the layout of the code: modifier files in the modifiers subtree
LayoutPath(it) ==
    IF it.kind = "modifier"
    THEN <<"public", "audio", "tts", it.lang, it.folder, "modifiers",
           lower(it.key) \o ".mp3">>
    ELSE ClaimedPath(it)

\* C7 (as claimed): color, modifier and number files are written to
\* audio/tts/<language>/<voice-folder>/<item>.mp3, numerals to
\* .../numbers/<n>.mp3 and events to audio/events/<language>/<item>.mp3.
C7_ClaimedLayout ==
    pc = "synth" => cur.path = ClaimedPath(cur.item)

\* C7 (amended): the output path is a function of category, lower-cased item
\* key, language and voice folder: color files are written to
\* audio/tts/<language>/<voice-folder>/<item>.mp3, modifier files to
\* audio/tts/<language>/<voice-folder>/modifiers/<item>.mp3, numeral files to
\* audio/tts/<language>/<voice-folder>/numbers/<n>.mp3 and event files to
\* audio/events/<language>/<item>.mp3; no file exists anywhere else.
C7_Layout ==
    /\ pc = "synth" => cur.path = LayoutPath(cur.item)
    /\ \A p \in DOMAIN files :
          /\ p[1] = "public" /\ p[2] = "audio"
          /\ IsColorPath(p) \/ IsNumberPath(p) \/ IsModifierPath(p)
                \/ IsEventPath(p)

\* the synthesis of a modifier is in progress
C7_Witness ==
    /\ pc = "synth"
    /\ cur.item.kind = "modifier"
    /\ cur.path = <<"public", "audio", "tts", "ru", "female-default",
                    "modifiers", "light.mp3">>

\* C8: color generation is confined to the requested languages.  No color
\* file is synthesized or changed under a language that was not requested,
\* and generate_color_audio that returns with synthesis succeeding has
\* written exactly one file, <language>/female-default/<lower-cased key>.mp3,
\* for each requested language with a translation and a voice configuration
\* (none where the file was there and overwrite is off).
C8_ColorLanguageConfinement ==
    /\ \A p \in Range(calls) :
          IsColorPath(p) => PathLanguage(p) \in Requested(op)
    /\ \A p \in DOMAIN files :
          (IsColorPath(p) /\ PathLanguage(p) \notin Requested(op)) =>
              p \in DOMAIN startFiles /\ files[p] = startFiles[p]
    /\ (pc = "done" /\ op.fn = "generate_color_audio" /\ errors = <<>>
           /\ op.key \in DOMAIN COLOR_TRANSLATIONS) =>
          LET want == {l \in Requested(op) \cap Voiced(op) :
                          l \in DOMAIN COLOR_TRANSLATIONS[op.key]}
              path(l) == <<"public", "audio", "tts", l, "female-default",
                           lower(op.key) \o ".mp3">>
          IN  /\ Range(written) =
                    {path(l) : l \in {x \in want :
                        op.overwrite \/ path(x) \notin DOMAIN startFiles}}
              /\ Len(written) = Cardinality(Range(written))
              /\ \A l \in want : path(l) \in DOMAIN files

\* Red generated for languages=["ru"] on an empty tree: one file, ru/.../red.mp3
C8_Witness ==
    /\ pc = "done"
    /\ op.fn = "generate_color_audio" /\ op.key = "Red"
    /\ op.languages = Some(<<"ru">>)
    /\ startFiles = <<>>
    /\ DOMAIN files = {<<"public", "audio", "tts", "ru", "female-default",
                         "red.mp3">>}

\* C9: generate_number_audio called with max_number=N and languages=[l], l a
\* language with a voice configuration, on an empty output tree, with
\* synthesis succeeding, produces exactly the files 1.mp3 .. N.mp3 in the
\* numbers subtree of l, no file anywhere else, and returns N (no file for
\* N = 0).
C9_Numerals ==
    (/\ pc = "done" /\ op.fn = "generate_number_audio"
     /\ errors = <<>> /\ startFiles = <<>>
     /\ ~op.languages.isNone /\ Len(op.languages.val) = 1
     /\ op.languages.val[1] \in Voiced(op)) =>
        LET l == op.languages.val[1] IN
        /\ DOMAIN files =
              {<<"public", "audio", "tts", l, "female-default", "numbers",
                 ToString(n) \o ".mp3">> : n \in 1..op.max_number}
        /\ \A p \in DOMAIN files : files[p] = "valid"
        /\ Returned(op, count) = op.max_number
        /\ Len(written) = op.max_number

\* the numeral generator returned after writing MaxNumber files for ru
C9_Witness ==
    /\ pc = "done" /\ op.fn = "generate_number_audio"
    /\ errors = <<>> /\ startFiles = <<>>
    /\ op.languages = Some(<<"ru">>)
    /\ op.max_number = MaxNumber
    /\ Cardinality(DOMAIN files) = MaxNumber

CountWhere(seq, P(_)) == Cardinality({i \in 1..Len(seq) : P(seq[i])})

\* C10: the count a generate function returns is the number of synthesis
\* calls of that call that succeeded, each of which wrote its file: targets
\* skipped because the file exists, skipped for a missing translation or
\* language, or whose synthesis failed are not counted.  When no language is
\* listed twice this is the number of distinct files written.
\* generate_all_audio reports these counts per category, 0 for a category
\* that is excluded.
C10_CountIsFilesWritten ==
    pc = "done" =>
        /\ Len(written) = Len(calls) - Len(errors)
        /\ Generated(count) = Len(written)
        /\ (op.languages.isNone
               \/ Cardinality(Range(op.languages.val)) = Len(op.languages.val))
              => Len(written) = Cardinality(Range(written))
        /\ op.fn \in {"generate_color_audio", "generate_number_audio",
                      "generate_modifier_audio", "generate_all_modifiers",
                      "generate_event_audio", "generate_all_events"}
              => Returned(op, count) = Len(written)
        /\ op.fn = "generate_all_audio" =>
              /\ Returned(op, count) =
                    [colors    |-> CountWhere(written, IsColorPath),
                     numbers   |-> CountWhere(written, IsNumberPath),
                     modifiers |-> CountWhere(written, IsModifierPath),
                     events    |-> CountWhere(written, IsEventPath)]
              /\ ~op.include_numbers => Returned(op, count).numbers = 0
              /\ ~op.include_modifiers => Returned(op, count).modifiers = 0
              /\ ~op.include_events => Returned(op, count).events = 0

\* generate_all_audio returned with a category excluded, after one synthesis
\* failed and others wrote their files
C10_Witness ==
    /\ pc = "done" /\ op.fn = "generate_all_audio"
    /\ ~op.include_numbers
    /\ errors # <<>>
    /\ written # <<>>
    /\ Returned(op, count).colors > 0

---------------------------------------------------------------------------
(* The script processes: missing backend, listing modes, event language *)

\* a listing flag is on the command line of generate-tts-audio.py
HasListFlag(a) == a.list_colors \/ a.list_modifiers \/ a.list_events

\* the process is one of generate-tts-audio.py started with a listing flag
ListingProcess == proc.script = "generate-tts-audio.py" /\ HasListFlag(proc.args)

\* the lines that tell how to install the backend
Guidance == {"gtts_warning", "gtts_guidance", "edge_tts_guidance"}

\* the tables a listing prints
Tables == {"colors", "modifiers", "events"}

\* the process ended without any work: no generator was entered, no synthesis
\* attempted, and the files and directories are those it found
NoWorkDone ==
    /\ pc = "exited"
    /\ proc.exited
    /\ op = NoCmd
    /\ calls = <<>> /\ written = <<>>
    /\ files = startFiles
    /\ dirs = proc.dirs0

\* C11 (as claimed): when the backend library is absent at process start,
\* the process of either script ends at once with a non-zero exit status and
\* the installation guidance, before any work, in every invocation mode.
C11_ExitsNonZeroInEveryMode ==
    (proc.script # "" /\ ~proc.available) =>
        /\ NoWorkDone
        /\ proc.printed \cap Guidance # {}
        /\ proc.exit # 0

\* C11 (amended): when the backend library is absent at process start, the
\* process of either script ends at once, before any work (no generator
\* call, no synthesis, no file written, no directory created), and has
\* printed how to install the library.  Its exit status is 1 in every
\* generating mode; with a listing flag generate-tts-audio.py still prints
\* the table and exits with status 0.
C11_MissingBackend ==
    (proc.script # "" /\ ~proc.available) =>
        /\ NoWorkDone
        /\ proc.printed \cap Guidance # {}
        /\ IF ListingProcess
           THEN proc.exit = 0 /\ proc.printed \cap Tables # {}
           ELSE proc.exit = 1

\* generate-tts-audio.py, run without its backend in a generating mode on a
\* tree that an earlier run had filled, exited with status 1
C11_Witness ==
    /\ proc.script = "generate-tts-audio.py"
    /\ ~proc.available
    /\ ~HasListFlag(proc.args)
    /\ proc.exited /\ proc.exit = 1
    /\ \E p \in DOMAIN files : files[p] = "valid"

\* the table the listing flags ask for: colors before modifiers before events
AskedTable(a) ==
    IF a.list_colors THEN "colors"
    ELSE IF a.list_modifiers THEN "modifiers" ELSE "events"

\* C12: a process of generate-tts-audio.py started with --list-colors,
\* --list-modifiers or --list-events prints the table and exits (status 0)
\* without generating anything: no generator call, no synthesis, no file
\* written, no directory created, whatever other flags are given and whether
\* or not the backend library is there.
C12_ListingGeneratesNothing ==
    ListingProcess =>
        /\ NoWorkDone
        /\ proc.exit = 0
        /\ proc.printed \cap Tables = {AskedTable(proc.args)}

\* --list-events given together with --events-only, --modifiers-only and
\* --overwrite, with the backend there: the process has exited
C12_Witness ==
    /\ ListingProcess
    /\ proc.available
    /\ ~proc.args.list_colors /\ proc.args.list_events
    /\ proc.args.events_only /\ proc.args.overwrite
    /\ proc.exited

\* the call of the process generates the event category
EventsIncluded ==
    \/ op.fn = "generate_all_events"
    \/ op.fn = "generate_all_audio" /\ op.include_events

\* C13: in a process of generate-tts-audio.py the event category is generated
\* for the single language uk, whatever --language asks for: every event
\* file synthesized or present, and every events directory, is under
\* audio/events/uk, and when generate_all_audio with the events included, or
\* --events-only, returns with no synthesis failed, every event of the table
\* has its file audio/events/uk/<event>.mp3, written by the call or there
\* when it started.
C13_EventsOnlyUk ==
    proc.script = "generate-tts-audio.py" =>
        /\ \A p \in Range(calls) \cup DOMAIN files :
              IsEventPath(p) => PathLanguage(p) = "uk"
        /\ \A d \in dirs :
              (Len(d) >= 4 /\ d[3] = "events") => d[4] = "uk"
        /\ (pc = "done" /\ errors = <<>> /\ EventsIncluded) =>
              \A k \in Range(EVENT_KEYS) :
                 LET p == <<"public", "audio", "events", "uk", k \o ".mp3">>
                 IN  /\ p \in DOMAIN files
                     /\ p \in Range(written) \/ p \in DOMAIN startFiles
                     /\ op.overwrite => p \in Range(written)

\* a process started with --language ru returned after it wrote a color
\* file for ru and the uk file of every event
C13_Witness ==
    /\ proc.script = "generate-tts-audio.py"
    /\ proc.args.language = Some(<<"ru">>)
    /\ op.fn = "generate_all_audio"
    /\ pc = "done"
    /\ <<"public", "audio", "tts", "ru", "female-default", "red.mp3">>
          \in Range(written)
    /\ \A k \in Range(EVENT_KEYS) :
          <<"public", "audio", "events", "uk", k \o ".mp3">> \in Range(written)

=============================================================================
